---- MODULE Spec2Model ----
(***************************************************************************)
(* Model of anchore_engine/db/entities/upgrade.py: the versioned database  *)
(* upgrade runner (run_upgrade, upgrade_context, do_upgrade,               *)
(* do_upgrade_success) run by several service processes against one        *)
(* database; and of anchore_engine/apis/authorization.py: the wrapper     *)
(* DbAuthorizationHandler.requires puts around a request handler, called  *)
(* by several request threads that share its permission list.             *)
(*                                                                         *)
(* Python strings are sequences of one-character strings, so that          *)
(* distutils' StrictVersion is a real parse and string equality (==) and   *)
(* version order are different relations.  Python dicts are functions      *)
(* whose domain is the set of keys.                                        *)
(***************************************************************************)
EXTENDS Integers, Sequences, FiniteSets, TLC

\* ---------------------------------------------------------------- bounds
\* How many times one process calls run_upgrade.
MaxRuns == 2

\* The service processes that call run_upgrade at start-up.
Procs == {"p1", "p2"}

\* ------------------------------------------------------- python strings
None == <<"None">>

DigitChars == <<"0", "1", "2", "3", "4", "5", "6", "7", "8", "9">>

IsDigit(c) == \E i \in 1..Len(DigitChars) : DigitChars[i] = c

DigitVal(c) == (CHOOSE i \in 1..Len(DigitChars) : DigitChars[i] = c) - 1

\* str(n) for a natural number n (the decimal digits of a version literal).
RECURSIVE Dec(_)
Dec(n) == IF n < 10 THEN <<DigitChars[n + 1]>>
          ELSE Dec(n \div 10) \o <<DigitChars[(n % 10) + 1]>>

\* Operator arguments and LET definitions are evaluated anew at each use
\* inside ENABLED; a value bound by a quantifier or a set constructor is
\* evaluated once.  The parsing operators bind what they use more than once.

\* int(s) for a non-empty string of digits.
RECURSIVE ToInt(_)
ToInt(s) ==
    CHOOSE r \in { IF Len(v) = 0 THEN 0
                   ELSE 10 * ToInt(SubSeq(v, 1, Len(v) - 1)) + DigitVal(v[Len(v)]) :
                   v \in {s} } : TRUE

AllDigits(s) == \E v \in {s} : Len(v) > 0 /\ \A i \in 1..Len(v) : IsDigit(v[i])

\* s.split(sep): the pieces of s between the occurrences of the character sep.
RECURSIVE Split(_, _)
Split(s, sep) ==
    CHOOSE r \in
        { IF \A i \in 1..Len(v) : v[i] # sep THEN <<v>>
          ELSE CHOOSE q \in
                   { <<SubSeq(v, 1, k - 1)>> \o Split(SubSeq(v, k + 1, Len(v)), sep) :
                     k \in { CHOOSE i \in 1..Len(v) :
                                 v[i] = sep /\ \A j \in 1..(i - 1) : v[j] # sep } } : TRUE :
          v \in {s} } : TRUE

\* ------------------------------------------------------- StrictVersion
\* distutils.version.StrictVersion.version_re:
\*   ^(\d+) \. (\d+) (\. (\d+))? ([ab](\d+))?$
\* The position of the pre-release tag letter, or 0 when there is none.
PreAt(s) ==
    CHOOSE r \in
        { IF \E i \in 1..Len(v) : v[i] \in {"a", "b"}
          THEN CHOOSE i \in 1..Len(v) :
                   v[i] \in {"a", "b"} /\ \A j \in 1..(i - 1) : v[j] \notin {"a", "b"}
          ELSE 0 :
          v \in {s} } : TRUE

MainPart(s) ==
    CHOOSE r \in { IF at = 0 THEN v ELSE SubSeq(v, 1, at - 1) :
                   v \in {s}, at \in {PreAt(s)} } : TRUE

PrePart(s) ==
    CHOOSE r \in { IF at = 0 THEN <<>> ELSE SubSeq(v, at + 1, Len(v)) :
                   v \in {s}, at \in {PreAt(s)} } : TRUE

\* The strings StrictVersion(s) accepts; every other one raises ValueError.
IsStrictVersion(s) ==
    \E v \in {s} :
        /\ v # None
        /\ \E parts \in {Split(MainPart(v), ".")} :
               /\ Len(parts) \in {2, 3}
               /\ \A i \in 1..Len(parts) : AllDigits(parts[i])
        /\ PreAt(v) # 0 => AllDigits(PrePart(v))

\* StrictVersion(s).parse: the (major, minor, patch) tuple, patch 0 when the
\* string has two components, and the pre-release tuple or <<>> for None.
StrictVersion(s) ==
    CHOOSE r \in
        { [version |-> <<ToInt(parts[1]), ToInt(parts[2]),
                         IF Len(parts) = 3 THEN ToInt(parts[3]) ELSE 0>>,
           prerelease |-> IF at = 0 THEN <<>>
                          ELSE <<IF v[at] = "a" THEN 0 ELSE 1, ToInt(PrePart(v))>>] :
          v \in {s}, parts \in {Split(MainPart(s), ".")}, at \in {PreAt(s)} } : TRUE

\* cmp() of two tuples of integers of the same length.
RECURSIVE TupleCmp(_, _)
TupleCmp(x, y) ==
    CHOOSE r \in
        { IF Len(u) = 0 THEN 0
          ELSE IF u[1] < v[1] THEN -1
          ELSE IF u[1] > v[1] THEN 1
          ELSE TupleCmp(Tail(u), Tail(v)) :
          u \in {x}, v \in {y} } : TRUE

\* StrictVersion._cmp / __cmp__ on two parsed versions.
VersionCmp(a, b) ==
    CHOOSE r \in
        { IF TupleCmp(u.version, v.version) # 0 THEN TupleCmp(u.version, v.version)
          ELSE IF u.prerelease = <<>> /\ v.prerelease = <<>> THEN 0
          ELSE IF u.prerelease # <<>> /\ v.prerelease = <<>> THEN -1
          ELSE IF u.prerelease = <<>> /\ v.prerelease # <<>> THEN 1
          ELSE TupleCmp(u.prerelease, v.prerelease) :
          u \in {a}, v \in {b} } : TRUE

\* StrictVersion(x) > StrictVersion(y), >= and <= on version strings.
VGt(x, y) == VersionCmp(StrictVersion(x), StrictVersion(y)) > 0
VGe(x, y) == VersionCmp(StrictVersion(x), StrictVersion(y)) >= 0
VLe(x, y) == VersionCmp(StrictVersion(x), StrictVersion(y)) <= 0
VLt(x, y) == VersionCmp(StrictVersion(x), StrictVersion(y)) < 0
VEq(x, y) == VersionCmp(StrictVersion(x), StrictVersion(y)) = 0

\* The literal 'a.b.c'.
Ver(a, b, c) == Dec(a) \o <<".">> \o Dec(b) \o <<".">> \o Dec(c)


\* ------------------------------------------------------------- dicts
\* {} and dict.get(key, default).
EmptyDict == [k \in {} |-> None]

DictGet(d, k, default) == IF k \in DOMAIN d THEN d[k] ELSE default

\* ------------------------------------------------- upgrade_functions
Step(db_from, db_to, fns) == [version_tuple |-> <<db_from, db_to>>, functions_to_run |-> fns]

\* The table the module declares.
ShippedTable ==
    << Step(Ver(0, 0, 1), Ver(0, 0, 2), <<"db_upgrade_001_002">>),
       Step(Ver(0, 0, 2), Ver(0, 0, 3), <<"db_upgrade_002_003">>),
       Step(Ver(0, 0, 3), Ver(0, 0, 4), <<"db_upgrade_003_004">>),
       Step(Ver(0, 0, 4), Ver(0, 0, 5), <<"db_upgrade_004_005">>),
       Step(Ver(0, 0, 5), Ver(0, 0, 6), <<"db_upgrade_005_006">>) >>

\* The first four entries of the table (steps up to 0.0.5).
ScenarioTable == SubSeq(ShippedTable, 1, 4)

\* A table in ascending order with steps of several functions, a step that
\* spans two versions and a gap between two steps.
WideTable ==
    << Step(Ver(0, 0, 1), Ver(0, 0, 2), <<"db_upgrade_001_002", "db_upgrade_002_003">>),
       Step(Ver(0, 0, 2), Ver(0, 0, 4), <<"db_upgrade_003_004">>),
       Step(Ver(0, 0, 5), Ver(0, 0, 6),
            <<"queue_data_upgrades_005_006", "archive_data_upgrade_005_006">>) >>

StepTables == {ShippedTable, ScenarioTable, WideTable}

\* upgrade_enabled, upgrade_lock_namespace, my_module_upgrade_id.
upgrade_enabled == TRUE
upgrade_lock_namespace == 1
my_module_upgrade_id == 1

\* ------------------------------------------------------------ inputs
\* anchore_engine.version of the releases a process may run: (version,
\* db_version); the last one declares no db_version.
CodeVersionChoices ==
    { [service_version |-> "0.1.9", db_version |-> Ver(0, 0, 5)],
      [service_version |-> "0.1.10", db_version |-> Ver(0, 0, 6)],
      [service_version |-> "0.2.0", db_version |-> Ver(0, 0, 7)],
      [service_version |-> "0.2.1", db_version |-> None] }

\* The db_version of the record the database starts with.
InitialDbVersions ==
    { Ver(0, 0, 1), Ver(0, 0, 3), Ver(0, 0, 5), Ver(0, 0, 6),
      Ver(0, 0, 6) \o <<"a", "1">>, Ver(0, 0, 10), <<"0", ".", "1">> }

\* The anchore table: missing, empty, or holding the one version record.
InitialDatabases ==
    { [table_exists |-> FALSE, record |-> EmptyDict],
      [table_exists |-> TRUE, record |-> EmptyDict] }
    \cup { [table_exists |-> TRUE,
            record |-> [service_version |-> "0.1.9", db_version |-> v]] :
           v \in InitialDbVersions }

\* The key of the advisory lock run_upgrade takes, and the value of a free lock.
LockKey == <<upgrade_lock_namespace, my_module_upgrade_id>>
NoLock == "free"

\* ------------------------------------------------------------- state
VARIABLES
    upgrade_functions,  \* the step table (read only)
    code_versions,      \* per process: the versions of the code it runs
    db_anchore,         \* the anchore table and its version record
    lock,               \* per lock key: the process holding it, or NoLock
    pc,                 \* per process: its position in run_upgrade
    runs,               \* per process: run_upgrade invocations started
    ctx,                \* per process: what upgrade_context yielded
    branch,             \* per process: the branch of run_upgrade taken
    ecode,              \* per process: the local ecode, {} when unbound
    db_current,         \* per process: do_upgrade's cursor
    step_i,             \* per process: index of the for loop over the table
    fn_j,               \* per process: index in functions_to_run
    rc,                 \* per process: the local rc of run_upgrade
    exc,                \* per process: the exception propagating, or "none"
    result,             \* per process: how the last invocation ended
    called,             \* per process: the functions this invocation called, and how each ended
    writes              \* per process: db_anchore.add calls of this invocation

vars == <<upgrade_functions, code_versions, db_anchore, lock, pc, runs, ctx, branch,
          ecode, db_current, step_i, fn_j, rc, exc, result, called, writes>>

locals == <<ctx, branch, ecode, db_current, step_i, fn_j, rc, exc, called, writes>>

NoResult == [kind |-> "none", value |-> "none"]

\* =================================================== apis/authorization.py
\* The threads that serve requests through one decorated handler.
Reqs == {"r1", "r2"}

\* How many requests one thread serves.
MaxCalls == 1

\* ------------------------------------------------------ exception classes
\* The classes the model tells apart: the two of this module, the Exception
\* subclasses raised by python and by the security library, and SystemExit
\* for the BaseException subclasses that are no Exception.
ExceptionClasses ==
    {"UnauthorizedError", "UnauthenticatedError", "TypeError", "AttributeError",
     "ValueError", "UnauthorizedException", "AuthenticationException", "RuntimeError"}

\* isinstance(e, Exception): what `except Exception` catches.
IsException(kind) == kind \in ExceptionClasses

\* An exception on its way out of inner_wrapper: where it was raised, what
\* was raised there, and the class it has when it leaves the try block.
Exc(at, raised, kind) == [at |-> at, raised |-> raised, kind |-> kind]

NoExc == Exc("none", "none", "none")

\* ------------------------------------------------------- LazyBoundValue
\* A field of a Permission: a plain str (or None), or a LazyBoundValue
\* object, with the class, the parameter name and the constructor's value.
Str(s) == [cls |-> "str", param_name |-> "", init |-> s]

ParameterBoundValue(parameter_name, default_value) ==
    [cls |-> "ParameterBoundValue", param_name |-> parameter_name, init |-> default_value]

RequestingAccountValue ==
    [cls |-> "RequestingAccountValue", param_name |-> "", init |-> None]

Permission(domain, action, target) == [domain |-> domain, action |-> action, target |-> target]

Fields == <<"domain", "action", "target">>

\* hasattr(x, 'bind')
HasBind(x) == x.cls # "str"

\* bool(x) for a Permission field: None and '' are false, objects are true.
Truthy(x) == HasBind(x) \/ (x.init # None /\ x.init # <<>>)

\* The LazyBoundValue objects of a permission list, by place (index, field).
LazyObjects(perms) ==
    { <<i, f>> \in (1..Len(perms)) \X {"domain", "action", "target"} : HasBind(perms[i][f]) }

\* ParameterBoundValue.bind: the new self._value.
ParameterBoundValue_bind(self_value, param_name, kwargs) ==
    IF DOMAIN kwargs # {} THEN DictGet(kwargs, param_name, None) ELSE self_value

\* FunctionInjectedValue.bind with the loader of RequestingAccountValue:
\* ApiRequestContextProxy.namespace(), the account of the request's identity.
IdentityContext(username, user_account, user_account_type) ==
    <<username, user_account, user_account_type>>

namespace(identity) == IF identity = None THEN None ELSE identity[2]

\* obj.bind(kwargs=kwargs): the new _value of the object.
bind(obj, self_value, kwargs, context_identity) ==
    IF obj.cls = "ParameterBoundValue"
    THEN ParameterBoundValue_bind(self_value, obj.param_name, kwargs)
    ELSE namespace(context_identity)

\* ':'.join([domain, action, target]); TypeError when an item is no str.
JoinRaises(parts) == \E i \in 1..Len(parts) : parts[i] = None

Join(parts) == parts[1] \o <<":">> \o parts[2] \o <<":">> \o parts[3]

\* ------------------------------------------------------------- inputs
Star == <<"*">>
Account1 == <<"a", "1">>
Account2 == <<"a", "2">>
Fallback == <<"d", "f">>

\* The permission lists handlers are decorated with: none (authentication
\* only), a parameter-bound domain with a default, the requesting account
\* with a parameter-bound target without default, and a list of two.
PermissionLists ==
    { <<>>,
      <<Permission(ParameterBoundValue("account", Fallback), Str(<<"r">>), Str(None))>>,
      <<Permission(RequestingAccountValue, Str(<<"w">>), ParameterBoundValue("account", None))>>,
      <<Permission(Str(<<"s">>), Str(<<>>), Str(Star)),
        Permission(ParameterBoundValue("account", Fallback), Str(<<"w">>), Str(Star))>> }

\* The keyword arguments of a request: none, the bound parameter, or others only.
KwargsChoices ==
    { EmptyDict, [account |-> Account1], [account |-> Account2], [tag |-> <<"t">>] }

\* request.authorization: None or (username, password).
Users == { <<"u", "1">>, <<"u", "2">> }

AccountOf(user) == IF user = <<"u", "1">> THEN Account1 ELSE Account2

AuthorizationChoices == {None} \cup { <<u, <<"p", "w">>>> : u \in Users }

\* What the wrapped handler returns.
HandlerResults == {"listing", "detail"}

\* --------------------------------------------- authenticate, authorize
\* What subject.login, idp.lookup_user and subject.check_permission can do.
LoginOutcomes == {"ok", "AuthenticationException", "SystemExit"}
LookupOutcomes == {"found", "raise"}
CheckOutcomes == {"ok", "UnauthorizedException", "ValueError", "RuntimeError", "SystemExit"}

\* What the wrapped handler can raise.
HandlerRaises == {"UnauthorizedError", "UnauthenticatedError", "RuntimeError", "SystemExit"}

\* DbAuthorizationHandler.authenticate: what it raises ("none" when it
\* returns), the identity it returns, and the subject's primary identifier.
authenticate(authorization, login, lookup) ==
    IF authorization = None
    THEN [raised |-> "none", identity |-> IdentityContext(None, None, None), subject |-> None]
    ELSE IF login # "ok"
    THEN [raised |-> login, identity |-> None, subject |-> None]
    ELSE IF lookup = "found"
    THEN [raised |-> "none",
          identity |-> IdentityContext(authorization[1], AccountOf(authorization[1]), <<"u">>),
          subject |-> authorization[1]]
    ELSE [raised |-> "none", identity |-> None, subject |-> authorization[1]]

\* Lines 213-215: what is raised inside the inner try: the exception of
\* authenticate, the AttributeError of None.username, or the
\* UnauthenticatedError for a false username.
authentication_raised(res) ==
    IF res.raised # "none" THEN res.raised
    ELSE IF res.identity = None THEN "AttributeError"
    ELSE IF res.identity[1] = None \/ res.identity[1] = <<>> THEN "UnauthenticatedError"
    ELSE "none"

\* Lines 216-217: the bare except turns whatever was raised into
\* UnauthenticatedError.
inner_authenticate(raised) ==
    IF raised = "none" THEN "none" ELSE "UnauthenticatedError"

\* DbAuthorizationHandler.authorize: what it raises, "none" when it returns.
authorize(subject, identity, check) ==
    IF subject # identity[1] THEN "UnauthorizedError"
    ELSE IF check \in {"ValueError", "UnauthorizedException"} THEN "UnauthorizedError"
    ELSE IF check = "ok" THEN "none"
    ELSE check

\* The authorization block of inner_wrapper: UnauthorizedError is raised
\* again, another Exception becomes UnauthorizedError, the rest propagates.
inner_authorize_lenient(raised) ==
    IF raised = "UnauthorizedError" THEN raised ELSE "none"

inner_authorize(raised) ==
    IF raised = "none" THEN "none"
    ELSE IF raised = "UnauthorizedError" THEN raised
    ELSE IF IsException(raised) THEN "UnauthorizedError"
    ELSE raised

\* The finally clause: ApiRequestContextProxy.set_identity(None).
teardown_on_success(identity, raised) == IF raised = "none" THEN None ELSE identity

teardown(identity, raised) == None

\* The except clauses of inner_wrapper: the response for the exception that
\* left the with block, or the exception itself when none of them catches it.
Raise(kind) == [kind |-> "raise", value |-> kind]
Return(value) == [kind |-> "return", value |-> value]

inner_except_all_500(kind) ==
    IF IsException(kind) THEN Return("500") ELSE Raise(kind)

inner_except(kind) ==
    IF kind = "UnauthorizedError" THEN Return("403")
    ELSE IF kind = "UnauthenticatedError" THEN Return("401")
    ELSE IF IsException(kind) THEN Return("500")
    ELSE Raise(kind)

\* -------------------------------------------------------------- state
VARIABLES
    permission_s,      \* the list given to requires(): shared by every call
    _value,            \* per LazyBoundValue object of permission_s: its _value
    frame,             \* per request thread: the locals of its inner_wrapper call
    request_identity   \* per request thread: the identity in ApiRequestContextProxy

authz_vars == <<permission_s, _value, frame, request_identity>>

NoAuthz == [called |-> FALSE, permission_list |-> <<>>, raised |-> "none"]

\* The frame of a thread: its place in inner_wrapper, the calls it has made
\* and the locals of the current call that are still to be read.  This is
\* the frame of a thread that is serving no request, and of one that has
\* just been called.
NewFrame(calls, kwargs, pc_) ==
    [pc |-> pc_, calls |-> calls, kwargs |-> kwargs,
     subject |-> None, identity |-> None, perm_i |-> 0, field_j |-> 0, parts |-> <<>>,
     permissions_final |-> <<>>, authz |-> NoAuthz, exc |-> NoExc, invoked |-> FALSE,
     result |-> "none", response |-> NoResult]

\* The frame once the body of the try block is left, by an exception or by
\* the handler's return: the finally and except clauses read nothing else.
Leave(f, pc_, exc_, result_, invoked_) ==
    [NewFrame(f.calls, EmptyDict, pc_)
         EXCEPT !.exc = exc_, !.result = result_, !.invoked = invoked_]

\* No request is being served and the handler is decorated with perms.
AuthzIdle(perms) ==
    /\ permission_s = perms
    /\ _value = [o \in LazyObjects(perms) |-> perms[o[1]][o[2]].init]
    /\ frame = [r \in Reqs |-> NewFrame(0, EmptyDict, "idle")]
    /\ request_identity = [r \in Reqs |-> None]

\* ------------------------------------------- actions of inner_wrapper
\* A request arrives: the framework calls inner_wrapper(*args, **kwargs).
Call(r) ==
    /\ frame[r].pc = "idle"
    /\ frame[r].calls < MaxCalls
    /\ \E kwargs \in KwargsChoices :
           frame' = [frame EXCEPT ![r] = NewFrame(@.calls + 1, kwargs, "context")]
    /\ UNCHANGED <<permission_s, _value, request_identity>>
    /\ UNCHANGED vars

\* with Yosai.context(self._yosai): entering it raises (no handler loaded)
\* or not; an exception here passes by the finally clause.
EnterContext(r) ==
    /\ frame[r].pc = "context"
    /\ \E raised \in BOOLEAN :
           frame' = [frame EXCEPT ![r] =
                        IF raised
                        THEN Leave(@, "except", Exc("context", "RuntimeError", "RuntimeError"),
                                   "none", FALSE)
                        ELSE [@ EXCEPT !.pc = "authenticate"]]
    /\ UNCHANGED <<permission_s, _value, request_identity>>
    /\ UNCHANGED vars

\* The place after permission i has been appended: the next one, or authorize.
AfterPerm(i) == IF i < Len(permission_s) THEN "field" ELSE "authorize"

\* Lines 212-220: authenticate the request (request_proxy.authorization is
\* what the client sent), reject a missing username, set the request
\* identity and start the loop over permission_s.
Authenticate(r) ==
    /\ frame[r].pc = "authenticate"
    /\ \E authorization \in AuthorizationChoices,
          login \in LoginOutcomes, lookup \in LookupOutcomes :
           LET res == authenticate(authorization, login, lookup)
               raised == authentication_raised(res)
           IN  IF raised # "none"
               THEN /\ frame' = [frame EXCEPT ![r] =
                                    Leave(@, "finally",
                                          Exc("authenticate", raised, inner_authenticate(raised)),
                                          "none", FALSE)]
                    /\ UNCHANGED request_identity
               ELSE /\ frame' = [frame EXCEPT ![r] =
                                    [@ EXCEPT !.pc = AfterPerm(0),
                                              !.subject = res.subject,
                                              !.identity = res.identity,
                                              !.perm_i = 1,
                                              !.field_j = 1]]
                    /\ request_identity' = [request_identity EXCEPT ![r] = res.identity]
    /\ UNCHANGED <<permission_s, _value>>
    /\ UNCHANGED vars

\* The place after field j of a permission: the next field, or the join.
AfterField(j) == IF j < Len(Fields) THEN "field" ELSE "join"

\* Lines 224-238 for one field: '*' for a false one; a plain value is taken
\* as it is, an object with bind() is bound with this call's kwargs.
BindField(r) ==
    /\ frame[r].pc = "field"
    /\ LET i == frame[r].perm_i
           j == frame[r].field_j
           raw == permission_s[i][Fields[j]]
           x == IF Truthy(raw) THEN raw ELSE Str(Star)
       IN  IF HasBind(x)
           THEN /\ _value' = [_value EXCEPT ![<<i, Fields[j]>>] =
                                 bind(x, @, frame[r].kwargs, request_identity[r])]
                /\ frame' = [frame EXCEPT ![r] = [@ EXCEPT !.pc = "value"]]
           ELSE /\ frame' = [frame EXCEPT ![r] =
                                [@ EXCEPT !.parts = Append(@, x.init),
                                          !.field_j = IF j < Len(Fields) THEN j + 1 ELSE j,
                                          !.pc = AfterField(j)]]
                /\ UNCHANGED _value
    /\ UNCHANGED <<permission_s, request_identity>>
    /\ UNCHANGED vars

\* domain = domain.value (and the same for action and target): the read of
\* the object's _value, a step of its own after bind().
ReadValue(r) ==
    /\ frame[r].pc = "value"
    /\ LET i == frame[r].perm_i
           j == frame[r].field_j
       IN  frame' = [frame EXCEPT ![r] =
                        [@ EXCEPT !.parts = Append(@, _value[<<i, Fields[j]>>]),
                                  !.field_j = IF j < Len(Fields) THEN j + 1 ELSE j,
                                  !.pc = AfterField(j)]]
    /\ UNCHANGED <<permission_s, _value, request_identity>>
    /\ UNCHANGED vars

\* permissions_final.append(':'.join([domain, action, target]))
JoinPermission(r) ==
    /\ frame[r].pc = "join"
    /\ frame' = [frame EXCEPT ![r] =
                    IF JoinRaises(@.parts)
                    THEN Leave(@, "finally", Exc("bind", "TypeError", "TypeError"), "none", FALSE)
                    ELSE [@ EXCEPT !.permissions_final = Append(@, Join(frame[r].parts)),
                                   !.parts = <<>>,
                                   !.perm_i = frame[r].perm_i + 1,
                                   !.field_j = 1,
                                   !.pc = AfterPerm(frame[r].perm_i)]]
    /\ UNCHANGED <<permission_s, _value, request_identity>>
    /\ UNCHANGED vars

\* Lines 243-249: self.authorize(identity, permissions_final).
Authorize(r) ==
    /\ frame[r].pc = "authorize"
    /\ \E check \in CheckOutcomes :
           LET raised == authorize(frame[r].subject, frame[r].identity, check)
               authz == [called |-> TRUE,
                         permission_list |-> frame[r].permissions_final,
                         raised |-> raised]
           IN  frame' = [frame EXCEPT ![r] =
                            IF inner_authorize(raised) = "none"
                            THEN [@ EXCEPT !.pc = "handler", !.authz = authz]
                            ELSE Leave(@, "finally",
                                       Exc("authorize", raised, inner_authorize(raised)),
                                       "none", FALSE)]
    /\ UNCHANGED <<permission_s, _value, request_identity>>
    /\ UNCHANGED vars

\* return f(*args, **kwargs): the wrapped handler returns or raises.
Handler(r) ==
    /\ frame[r].pc = "handler"
    /\ \/ \E value \in HandlerResults :
              frame' = [frame EXCEPT ![r] = Leave(@, "finally", NoExc, value, TRUE)]
       \/ \E kind \in HandlerRaises :
              frame' = [frame EXCEPT ![r] =
                           Leave(@, "finally", Exc("handler", kind, kind), "none", TRUE)]
    /\ UNCHANGED <<permission_s, _value, request_identity>>
    /\ UNCHANGED vars

\* finally: ApiRequestContextProxy.set_identity(None)
Finally(r) ==
    /\ frame[r].pc = "finally"
    /\ request_identity' = [request_identity EXCEPT ![r] = teardown(@, frame[r].exc.kind)]
    /\ frame' = [frame EXCEPT ![r] = [@ EXCEPT !.pc = "except"]]
    /\ UNCHANGED <<permission_s, _value>>
    /\ UNCHANGED vars

\* The with block is left: the handler's result is returned, or the except
\* clauses of lines 256-262 turn the exception into a response; the locals
\* of the call are gone.
Except(r) ==
    /\ frame[r].pc = "except"
    /\ frame' = [frame EXCEPT ![r] =
                    [NewFrame(@.calls, EmptyDict, "idle")
                         EXCEPT !.response = IF frame[r].exc.kind = "none"
                                             THEN Return(frame[r].result)
                                             ELSE inner_except(frame[r].exc.kind)]]
    /\ UNCHANGED <<permission_s, _value, request_identity>>
    /\ UNCHANGED vars

UpgradeInit ==
    /\ upgrade_functions \in StepTables
    /\ code_versions \in [Procs -> CodeVersionChoices]
    /\ db_anchore \in InitialDatabases
    /\ lock = [k \in {LockKey} |-> NoLock]
    /\ pc = [p \in Procs |-> "idle"]
    /\ runs = [p \in Procs |-> 0]
    /\ ctx = [p \in Procs |-> <<>>]
    /\ branch = [p \in Procs |-> "none"]
    /\ ecode = [p \in Procs |-> {}]
    /\ db_current = [p \in Procs |-> None]
    /\ step_i = [p \in Procs |-> 0]
    /\ fn_j = [p \in Procs |-> 0]
    /\ rc = [p \in Procs |-> "unset"]
    /\ exc = [p \in Procs |-> "none"]
    /\ result = [p \in Procs |-> NoResult]
    /\ called = [p \in Procs |-> <<>>]
    /\ writes = [p \in Procs |-> 0]

\* The service at start: no run_upgrade call and no request yet.
Init == UpgradeInit /\ AuthzIdle(<<>>)

\* ----------------------------------------------------------- actions
\* A process calls run_upgrade(): a fresh frame, then upgrade_context is
\* entered and blocks on the advisory lock.
Start(p) ==
    /\ pc[p] = "idle"
    /\ runs[p] < MaxRuns
    /\ runs' = [runs EXCEPT ![p] = @ + 1]
    /\ pc' = [pc EXCEPT ![p] = "acquire"]
    /\ ctx' = [ctx EXCEPT ![p] = <<>>]
    /\ branch' = [branch EXCEPT ![p] = "none"]
    /\ ecode' = [ecode EXCEPT ![p] = {}]
    /\ db_current' = [db_current EXCEPT ![p] = None]
    /\ step_i' = [step_i EXCEPT ![p] = 0]
    /\ fn_j' = [fn_j EXCEPT ![p] = 0]
    /\ rc' = [rc EXCEPT ![p] = "unset"]
    /\ exc' = [exc EXCEPT ![p] = "none"]
    /\ result' = [result EXCEPT ![p] = NoResult]
    /\ called' = [called EXCEPT ![p] = <<>>]
    /\ writes' = [writes EXCEPT ![p] = 0]
    /\ UNCHANGED <<upgrade_functions, code_versions, db_anchore, lock>>

\* db_application_lock(engine, (upgrade_lock_namespace, lock_id)).__enter__:
\* a blocking acquire of the exclusive advisory lock.
db_application_lock_enter(p, key) ==
    /\ lock[key] = NoLock
    /\ lock' = [lock EXCEPT ![key] = p]

\* db_application_lock.__exit__: the release, whatever leaves the block.
db_application_lock_exit(p, key) ==
    lock' = [lock EXCEPT ![key] = IF @ = p THEN NoLock ELSE @]

\* upgrade_context with get_versions() called outside the lock's with block.
upgrade_context_enter_unlocked(p) ==
    /\ lock' = lock
    /\ pc' = [pc EXCEPT ![p] = "get_versions"]

\* upgrade_context up to the with statement: the lock is taken before
\* get_versions() is called.
upgrade_context_enter(p) ==
    /\ db_application_lock_enter(p, LockKey)
    /\ pc' = [pc EXCEPT ![p] = "get_versions"]

AcquireLock(p) ==
    /\ pc[p] = "acquire"
    /\ upgrade_context_enter(p)
    /\ UNCHANGED <<upgrade_functions, code_versions, db_anchore, runs, result>>
    /\ UNCHANGED locals

\* db_anchore.get(session): the version record as a dict, {} when the table
\* holds no record.
db_anchore_get == db_anchore.record

\* The except clause without the is_table_not_found test.
get_versions_error_generic(table_exists, db_error) ==
    IF ~table_exists \/ db_error THEN "Exception: cannot find anchore DB tables"
    ELSE "none"

\* What the try block of get_versions raises: TableNotFoundError when the
\* session fails on the missing anchore table, Exception on any other
\* database error, nothing otherwise.
get_versions_error(table_exists, db_error) ==
    IF ~table_exists THEN "TableNotFoundError"
    ELSE IF db_error THEN "Exception: cannot find anchore DB tables"
    ELSE "none"

\* get_versions(), called inside the lock: the pair (code_versions,
\* db_versions), or the exception of its try block.
GetVersions(p) ==
    /\ pc[p] = "get_versions"
    /\ \E db_error \in BOOLEAN :
         IF get_versions_error(db_anchore.table_exists, db_error) # "none"
         THEN /\ exc' = [exc EXCEPT ![p] =
                           get_versions_error(db_anchore.table_exists, db_error)]
              /\ pc' = [pc EXCEPT ![p] = "exit"]
              /\ ctx' = ctx
         ELSE /\ ctx' = [ctx EXCEPT ![p] = <<code_versions[p], db_anchore_get>>]
              /\ pc' = [pc EXCEPT ![p] = "inspect"]
              /\ exc' = exc
    /\ UNCHANGED <<upgrade_functions, code_versions, db_anchore, lock, runs, result>>
    /\ UNCHANGED <<branch, ecode, db_current, step_i, fn_j, rc, called, writes>>

\* The chain without its elif for equal versions.
run_upgrade_branch_no_match(code_db_version, running_db_version) ==
    IF code_db_version = None \/ code_db_version = <<>> THEN "config_error"
    ELSE IF running_db_version = None THEN "uninitialized"
    ELSE "upgrade"

\* The chain raising whenever either version is missing.
run_upgrade_branch_strict(code_db_version, running_db_version) ==
    IF code_db_version = None \/ code_db_version = <<>> \/ running_db_version = None
    THEN "config_error"
    ELSE IF code_db_version = running_db_version THEN "match"
    ELSE "upgrade"

\* The chain without its test of the code db version.
run_upgrade_branch_no_config(code_db_version, running_db_version) ==
    IF running_db_version = None THEN "uninitialized"
    ELSE IF code_db_version = running_db_version THEN "match"
    ELSE "upgrade"

\* The if/elif chain of run_upgrade on the two db versions.
run_upgrade_branch(code_db_version, running_db_version) ==
    IF code_db_version = None \/ code_db_version = <<>> THEN "config_error"
    ELSE IF running_db_version = None THEN "uninitialized"
    ELSE IF code_db_version = running_db_version THEN "match"
    ELSE "upgrade"

\* run_upgrade from the with statement's body to the call of do_upgrade.
Inspect(p) ==
    /\ pc[p] = "inspect"
    /\ LET code_db_version == DictGet(ctx[p][1], "db_version", None)
           running_db_version == DictGet(ctx[p][2], "db_version", None)
           b == run_upgrade_branch(code_db_version, running_db_version)
       IN  /\ branch' = [branch EXCEPT ![p] = b]
           /\ ecode' = [ecode EXCEPT ![p] = IF b = "uninitialized" THEN {0} ELSE @]
           /\ exc' = [exc EXCEPT ![p] =
                        IF b = "config_error" THEN "Exception: cannot code version" ELSE @]
           /\ pc' = [pc EXCEPT ![p] = IF b = "upgrade" THEN "do_upgrade" ELSE "exit"]
    /\ UNCHANGED <<upgrade_functions, code_versions, db_anchore, lock, runs, result>>
    /\ UNCHANGED <<ctx, db_current, step_i, fn_j, rc, called, writes>>

\* ord() of the characters of a version string.
CharOrd(c) == IF c = "." THEN 46
              ELSE IF IsDigit(c) THEN 48 + DigitVal(c)
              ELSE IF c = "a" THEN 97 ELSE 98

\* x > y on python strings.
RECURSIVE StrGt(_, _)
StrGt(x, y) ==
    IF Len(x) = 0 THEN FALSE
    ELSE IF Len(y) = 0 THEN TRUE
    ELSE IF CharOrd(x[1]) # CharOrd(y[1]) THEN CharOrd(x[1]) > CharOrd(y[1])
    ELSE StrGt(Tail(x), Tail(y))

\* The downgrade test on the strings instead of on StrictVersion objects.
IsDowngrade_strings(inplace_db_version, incode_db_version) ==
    StrGt(inplace_db_version, incode_db_version)

\* The downgrade test left out.
IsDowngrade_never(inplace_db_version, incode_db_version) == FALSE

\* The downgrade test at the top of do_upgrade.
IsDowngrade(inplace_db_version, incode_db_version) ==
    VGt(inplace_db_version, incode_db_version)

\* do_upgrade(inplace, incode) up to the for loop.  StrictVersion raises
\* ValueError on a string that is no version number.
DoUpgradeEnter(p) ==
    /\ pc[p] = "do_upgrade"
    /\ LET inplace == ctx[p][2]
           incode == ctx[p][1]
       IN  IF ~IsStrictVersion(inplace["db_version"]) \/ ~IsStrictVersion(incode["db_version"])
           THEN /\ exc' = [exc EXCEPT ![p] = "ValueError: invalid version number"]
                /\ pc' = [pc EXCEPT ![p] = "exit"]
                /\ UNCHANGED <<db_current, step_i, rc>>
           ELSE IF IsDowngrade(inplace["db_version"], incode["db_version"])
           THEN /\ exc' = [exc EXCEPT ![p] = "Exception: DB downgrade not supported"]
                /\ pc' = [pc EXCEPT ![p] = "exit"]
                /\ UNCHANGED <<db_current, step_i, rc>>
           ELSE IF inplace["db_version"] # incode["db_version"] /\ upgrade_enabled
           THEN /\ db_current' = [db_current EXCEPT ![p] = inplace["db_version"]]
                /\ step_i' = [step_i EXCEPT ![p] = 1]
                /\ pc' = [pc EXCEPT ![p] = "loop"]
                /\ UNCHANGED <<exc, rc>>
           ELSE /\ rc' = [rc EXCEPT ![p] = "True"]
                /\ pc' = [pc EXCEPT ![p] = "do_upgrade_success"]
                /\ UNCHANGED <<exc, db_current, step_i>>
    /\ UNCHANGED <<upgrade_functions, code_versions, db_anchore, lock, runs, result>>
    /\ UNCHANGED <<ctx, branch, ecode, fn_j, called, writes>>

\* The loop test skipping only the steps strictly older than the cursor.
LoopDecision_lt(cursor, db_target, db_to) ==
    IF VGe(cursor, db_target) THEN "break"
    ELSE IF VLt(db_to, cursor) THEN "continue"
    ELSE "execute"

\* The loop test breaking only once the cursor is beyond the target.
LoopDecision_gt(cursor, db_target, db_to) ==
    IF VGt(cursor, db_target) THEN "break"
    ELSE IF VLe(db_to, cursor) THEN "continue"
    ELSE "execute"

\* The test at the head of the loop body: "break" once the cursor has
\* reached the target, "continue" past a step for an older version, and
\* "execute" otherwise.
LoopDecision(cursor, db_target, db_to) ==
    IF VGe(cursor, db_target) THEN "break"
    ELSE IF VLe(db_to, cursor) THEN "continue"
    ELSE "execute"

\* do_upgrade returning whether the cursor has reached the target.
do_upgrade_ret_checked(cursor, db_target) ==
    IF VGe(cursor, db_target) THEN "True" ELSE "False"

\* What do_upgrade returns once the loop has ended.
do_upgrade_ret(cursor, db_target) == "True"

\* One iteration of `for version_tuple, functions_to_run in upgrade_functions`
\* up to its first function call; when the table is exhausted or the loop
\* breaks, do_upgrade returns and run_upgrade has rc.
LoopHead(p) ==
    /\ pc[p] = "loop"
    /\ LET db_target == ctx[p][1]["db_version"]
           ended == step_i[p] > Len(upgrade_functions)
           step == upgrade_functions[step_i[p]]
           db_to == step.version_tuple[2]
           decision == IF ended THEN "break"
                       ELSE LoopDecision(db_current[p], db_target, db_to)
       IN  IF decision = "break"
           THEN /\ rc' = [rc EXCEPT ![p] = do_upgrade_ret(db_current[p], db_target)]
                /\ pc' = [pc EXCEPT ![p] = "do_upgrade_success"]
                /\ UNCHANGED <<step_i, fn_j, db_current>>
           ELSE IF decision = "continue"
           THEN /\ step_i' = [step_i EXCEPT ![p] = @ + 1]
                /\ UNCHANGED <<rc, pc, fn_j, db_current>>
           ELSE IF Len(step.functions_to_run) = 0
           THEN /\ db_current' = [db_current EXCEPT ![p] = db_to]
                /\ step_i' = [step_i EXCEPT ![p] = @ + 1]
                /\ UNCHANGED <<rc, pc, fn_j>>
           ELSE /\ fn_j' = [fn_j EXCEPT ![p] = 1]
                /\ pc' = [pc EXCEPT ![p] = "fn"]
                /\ UNCHANGED <<rc, step_i, db_current>>
    /\ UNCHANGED <<upgrade_functions, code_versions, db_anchore, lock, runs, result>>
    /\ UNCHANGED <<ctx, branch, ecode, exc, called, writes>>

\* The except clause logging the error without raising it again.
AfterFn_swallow(raised, j, n) ==
    IF j < n THEN "next_fn" ELSE "step_done"

\* The inner loop leaving the step after its first function.
AfterFn_first_only(raised, j, n) ==
    IF raised THEN "raise" ELSE "step_done"

\* Where do_upgrade goes after functions_to_run[j] of a step of n functions
\* has raised or returned.
AfterFn(raised, j, n) ==
    IF raised THEN "raise"
    ELSE IF j < n THEN "next_fn"
    ELSE "step_done"

\* fn(): one upgrade function runs to completion and returns, or raises; an
\* exception is logged and raised again, and leaves do_upgrade and run_upgrade.
CallFn(p) ==
    /\ pc[p] = "fn"
    /\ \E raised \in BOOLEAN :
         LET step == upgrade_functions[step_i[p]]
             fn == step.functions_to_run[fn_j[p]]
             after == AfterFn(raised, fn_j[p], Len(step.functions_to_run))
         IN  /\ called' = [called EXCEPT ![p] = Append(@, [fn |-> fn, raised |-> raised])]
             /\ IF after = "raise"
                THEN /\ exc' = [exc EXCEPT ![p] = "Exception: upgrade function raised"]
                     /\ pc' = [pc EXCEPT ![p] = "exit"]
                     /\ UNCHANGED <<fn_j, step_i, db_current>>
                ELSE IF after = "next_fn"
                THEN /\ fn_j' = [fn_j EXCEPT ![p] = @ + 1]
                     /\ UNCHANGED <<exc, pc, step_i, db_current>>
                ELSE /\ db_current' = [db_current EXCEPT ![p] = step.version_tuple[2]]
                     /\ step_i' = [step_i EXCEPT ![p] = @ + 1]
                     /\ pc' = [pc EXCEPT ![p] = "loop"]
                     /\ UNCHANGED <<exc, fn_j>>
    /\ UNCHANGED <<upgrade_functions, code_versions, db_anchore, lock, runs, result>>
    /\ UNCHANGED <<ctx, branch, ecode, rc, writes>>

\* db_anchore.add(service_version, db_version, code_versions, session): the
\* upsert of the single version record.
db_anchore_add(incode) ==
    [table_exists |-> TRUE,
     record |-> [service_version |-> incode["service_version"],
                 db_version |-> incode["db_version"]]]

\* What run_upgrade does with the rc of do_upgrade.
AfterDoUpgrade(do_upgrade_rc) ==
    IF do_upgrade_rc = "True" THEN "do_upgrade_success" ELSE "raise"

\* run_upgrade after do_upgrade returned: `if rc:` do_upgrade_success writes
\* the code versions and its True is returned; the write is one session and
\* changes nothing when it raises.
DoUpgradeSuccess(p) ==
    /\ pc[p] = "do_upgrade_success"
    /\ \E write_error \in BOOLEAN :
         IF AfterDoUpgrade(rc[p]) = "raise"
         THEN /\ exc' = [exc EXCEPT ![p] = "Exception: upgrade routine returned false"]
              /\ UNCHANGED <<db_anchore, writes, rc>>
         ELSE IF write_error
         THEN /\ exc' = [exc EXCEPT ![p] = "Exception: version record write failed"]
              /\ UNCHANGED <<db_anchore, writes, rc>>
         ELSE /\ db_anchore' = db_anchore_add(ctx[p][1])
              /\ writes' = [writes EXCEPT ![p] = @ + 1]
              /\ rc' = [rc EXCEPT ![p] = "True"]
              /\ exc' = exc
    /\ pc' = [pc EXCEPT ![p] = "exit"]
    /\ UNCHANGED <<upgrade_functions, code_versions, lock, runs, result>>
    /\ UNCHANGED <<ctx, branch, ecode, db_current, step_i, fn_j, called>>

\* A release that an exception skips (no with statement, no finally).
upgrade_context_exit_on_success(p) ==
    lock' = IF exc[p] = "none" THEN [lock EXCEPT ![LockKey] = NoLock] ELSE lock

\* Leaving the with block of upgrade_context, by return, by falling off the
\* end of run_upgrade or by an exception: the lock's __exit__ runs.
upgrade_context_exit(p) == db_application_lock_exit(p, LockKey)

\* What the caller of run_upgrade gets.
run_upgrade_result(p) ==
    IF exc[p] # "none" THEN [kind |-> "raise", value |-> exc[p]]
    ELSE IF branch[p] = "upgrade" THEN [kind |-> "return", value |-> rc[p]]
    ELSE [kind |-> "return", value |-> "None"]

ExitContext(p) ==
    /\ pc[p] = "exit"
    /\ upgrade_context_exit(p)
    /\ result' = [result EXCEPT ![p] = run_upgrade_result(p)]
    /\ pc' = [pc EXCEPT ![p] = "idle"]
    /\ UNCHANGED <<upgrade_functions, code_versions, db_anchore, runs>>
    /\ UNCHANGED locals

Next ==
    /\ \E p \in Procs :
           \/ Start(p)
           \/ AcquireLock(p)
           \/ GetVersions(p)
           \/ Inspect(p)
           \/ DoUpgradeEnter(p)
           \/ LoopHead(p)
           \/ CallFn(p)
           \/ DoUpgradeSuccess(p)
           \/ ExitContext(p)
    /\ UNCHANGED authz_vars

Spec == Init /\ [][Next]_vars

\* The steps of an invocation that holds the lock: database calls and
\* migration functions return or raise, and the interpreter goes on.
Proceed(p) ==
    /\ \/ GetVersions(p)
       \/ Inspect(p)
       \/ DoUpgradeEnter(p)
       \/ LoopHead(p)
       \/ CallFn(p)
       \/ DoUpgradeSuccess(p)
       \/ ExitContext(p)
    /\ UNCHANGED authz_vars

\* Instances of one release started together: every process imports the same
\* anchore_engine.version module.
FairInit == Init /\ \A p, q \in Procs : code_versions[p] = code_versions[q]

\* The runs in which every call made under the lock comes back and the lock
\* provider is fair: a waiter that could take the lock again and again does.
FairSpec ==
    /\ FairInit
    /\ [][Next]_vars
    /\ \A p \in Procs :
           WF_vars(Proceed(p)) /\ SF_vars(AcquireLock(p) /\ UNCHANGED authz_vars)

\* ------------------------------------ specifications of inner_wrapper
\* The upgrade has been run (or not) before the service takes requests; the
\* handler is decorated once, at import, with one of the permission lists.
AuthInit ==
    /\ UpgradeInit
    /\ upgrade_functions = ShippedTable
    /\ db_anchore = [table_exists |-> TRUE, record |-> EmptyDict]
    /\ \A p \in Procs : code_versions[p]["db_version"] = Ver(0, 0, 6)
    /\ \E perms \in PermissionLists : AuthzIdle(perms)

\* The steps of the request threads, in any interleaving.
AuthNext ==
    \E r \in Reqs :
        \/ Call(r)
        \/ EnterContext(r)
        \/ Authenticate(r)
        \/ BindField(r)
        \/ ReadValue(r)
        \/ JoinPermission(r)
        \/ Authorize(r)
        \/ Handler(r)
        \/ Finally(r)
        \/ Except(r)

AuthSpec == AuthInit /\ [][AuthNext]_authz_vars

\* Requests served one after the other: a request arrives only when no
\* other is being served.
SeqCall(r) == Call(r) /\ \A q \in Reqs : frame[q].pc = "idle"

SeqNext ==
    \E r \in Reqs :
        \/ SeqCall(r)
        \/ EnterContext(r)
        \/ Authenticate(r)
        \/ BindField(r)
        \/ ReadValue(r)
        \/ JoinPermission(r)
        \/ Authorize(r)
        \/ Handler(r)
        \/ Finally(r)
        \/ Except(r)

SeqSpec == AuthInit /\ [][SeqNext]_authz_vars

\* ------------------------------------------------------------ helpers
\* The positions of run_upgrade between acquiring and releasing the lock.
InContext(p) ==
    pc[p] \in {"get_versions", "inspect", "do_upgrade", "loop", "fn",
               "do_upgrade_success", "exit"}

\* The positions at which do_upgrade is executing.
InDoUpgrade(p) == pc[p] \in {"do_upgrade", "loop", "fn"}

\* upgrade_context has yielded the versions to this invocation.
HasCtx(p) == Len(ctx[p]) = 2

CodeDb(p) == DictGet(ctx[p][1], "db_version", None)
RunningDb(p) == DictGet(ctx[p][2], "db_version", None)

\* The names of the functions an invocation has called, in call order.
CalledNames(p) == [k \in 1..Len(called[p]) |-> called[p][k].fn]

FnRaised(p) == \E k \in 1..Len(called[p]) : called[p][k].raised

\* The functions of the steps of table t whose range lies within [a, c), in
\* table order.
RECURSIVE FnsWithin(_, _, _)
FnsWithin(t, a, c) ==
    IF Len(t) = 0 THEN <<>>
    ELSE (IF VGe(t[1].version_tuple[1], a) /\ VLe(t[1].version_tuple[2], c)
          THEN t[1].functions_to_run ELSE <<>>) \o FnsWithin(Tail(t), a, c)

\* do_upgrade has returned True to this invocation after walking the table
\* from a = RunningDb to c = CodeDb, a < c, with no function raising.
WalkedUp(p) ==
    /\ HasCtx(p)
    /\ branch[p] = "upgrade"
    /\ rc[p] = "True"
    /\ VLt(RunningDb(p), CodeDb(p))

\* a is strictly inside no step's range, and c is the `to` of a step or
\* newer than the `to` of every step.
OnBoundaries(t, a, c) ==
    /\ \A k \in 1..Len(t) : ~(VLt(t[k].version_tuple[1], a) /\ VLt(a, t[k].version_tuple[2]))
    /\ \/ \E k \in 1..Len(t) : VEq(t[k].version_tuple[2], c)
       \/ \A k \in 1..Len(t) : VLt(t[k].version_tuple[2], c)

\* ------------------------------------------------------------- claims
\* C1: at most one invocation at a time is between acquiring and releasing
\* the advisory lock (1, 1): no two processes are at once inspecting versions
\* or executing step functions, and whoever is there holds the lock, so every
\* other invocation is still blocked on it.
C1_SingleWriter ==
    \A p \in Procs :
        InContext(p) =>
            /\ lock[LockKey] = p
            /\ \A q \in Procs \ {p} : ~InContext(q)

\* One process is executing a step function while another is blocked on the lock.
C1_Witness ==
    \E p, q \in Procs : p # q /\ pc[p] = "fn" /\ pc[q] = "acquire" /\ lock[LockKey] = p

\* C2: when a migration function raises, it is the last function the run
\* calls (nothing of the rest of its step or of a later step runs),
\* do_upgrade_success is not called, the run ends raising, and the version
\* record is, while the run still holds the lock, the one the run read.
C2_PartialFailure ==
    \A p \in Procs :
        \A k \in 1..Len(called[p]) :
            called[p][k].raised =>
                /\ k = Len(called[p])
                /\ pc[p] \in {"exit", "idle"}
                /\ rc[p] = "unset"
                /\ writes[p] = 0
                /\ pc[p] = "exit" => /\ RunningDb(p) = db_anchore.record["db_version"]
                                     /\ ctx[p][2]["service_version"] =
                                            db_anchore.record["service_version"]
                /\ pc[p] = "idle" => result[p].kind = "raise"

\* A run ended after its second function raised, with functions of the same
\* step or of a later step below the target never called.
C2_Witness ==
    \E p \in Procs :
        /\ pc[p] = "idle"
        /\ Len(called[p]) = 2
        /\ ~called[p][1].raised
        /\ called[p][2].raised
        /\ \/ fn_j[p] < Len(upgrade_functions[step_i[p]].functions_to_run)
           \/ /\ step_i[p] < Len(upgrade_functions)
              /\ VLt(upgrade_functions[step_i[p]].version_tuple[2], CodeDb(p))

\* C3: an invocation that read a running db version strictly greater, as
\* StrictVersion, than its code db version calls no migration function, writes
\* no version record, never gets past the downgrade test, and ends raising
\* 'DB downgrade not supported'.
C3_DowngradeRejected ==
    \A p \in Procs :
        ( /\ HasCtx(p)
          /\ IsStrictVersion(CodeDb(p))
          /\ IsStrictVersion(RunningDb(p))
          /\ VGt(RunningDb(p), CodeDb(p)) ) =>
            /\ called[p] = <<>>
            /\ writes[p] = 0
            /\ pc[p] \notin {"loop", "fn", "do_upgrade_success"}
            /\ pc[p] = "idle" =>
                   result[p] = [kind |-> "raise",
                                value |-> "Exception: DB downgrade not supported"]

\* A run was rejected although its running version is the smaller string:
\* '0.0.10' against a code version with a one-digit patch number.
C3_Witness ==
    \E p \in Procs :
        /\ pc[p] = "idle"
        /\ HasCtx(p)
        /\ RunningDb(p) = Ver(0, 0, 10)
        /\ CodeDb(p) = Ver(0, 0, 7)
        /\ result[p].value = "Exception: DB downgrade not supported"

\* C4: an invocation that read a running db version equal (==) to its code db
\* version takes the 'nothing to do' branch, calls no migration function,
\* writes no version record and returns normally, in each of its repeated runs.
C4_Idempotent ==
    \A p \in Procs :
        ( /\ HasCtx(p)
          /\ pc[p] # "inspect"
          /\ CodeDb(p) # None
          /\ CodeDb(p) = RunningDb(p) ) =>
            /\ branch[p] = "match"
            /\ pc[p] \in {"exit", "idle"}
            /\ exc[p] = "none"
            /\ called[p] = <<>>
            /\ writes[p] = 0
            /\ pc[p] = "idle" => result[p].kind = "return"

\* The second run of a process found nothing to do on the record that an
\* upgrade to its own code versions had written.
C4_Witness ==
    \E p \in Procs :
        /\ runs[p] = 2
        /\ pc[p] = "idle"
        /\ branch[p] = "match"
        /\ ctx[p][2]["service_version"] = code_versions[p]["service_version"]
        /\ ctx[p][2]["service_version"] # "0.1.9"

\* C5 as stated: from a to c, a < c, with no function raising, do_upgrade
\* calls exactly the functions of the steps whose range lies within [a, c),
\* in table order, for every table in ascending order and all a < c.
C5_StepSelection_AllVersions ==
    \A p \in Procs :
        WalkedUp(p) =>
            CalledNames(p) = FnsWithin(upgrade_functions, RunningDb(p), CodeDb(p))

\* C5, amended: the same when a is strictly inside no step's range and c is
\* the `to` of a step or newer than every step's `to`; and the record a run
\* has then written carries db version c.
C5_StepSelection ==
    \A p \in Procs :
        (WalkedUp(p) /\ OnBoundaries(upgrade_functions, RunningDb(p), CodeDb(p))) =>
            /\ CalledNames(p) = FnsWithin(upgrade_functions, RunningDb(p), CodeDb(p))
            /\ (pc[p] = "exit" /\ writes[p] = 1) =>
                   db_anchore.record["db_version"] = CodeDb(p)

\* The scenario: steps up to 0.0.5, current 0.0.3, target 0.0.5: the last two
\* steps ran, in order, and 0.0.5 is persisted.
C5_Witness ==
    \E p \in Procs :
        /\ upgrade_functions = ScenarioTable
        /\ pc[p] = "exit"
        /\ writes[p] = 1
        /\ RunningDb(p) = Ver(0, 0, 3)
        /\ CodeDb(p) = Ver(0, 0, 5)
        /\ CalledNames(p) = <<"db_upgrade_003_004", "db_upgrade_004_005">>
        /\ db_anchore.record["db_version"] = Ver(0, 0, 5)

\* C6, on the declared upgrade_functions table: do_upgrade returns True only
\* if the cursor db_current has reached the target db version when the loop
\* ends.
C6_TargetReached ==
    \A p \in Procs :
        ( /\ upgrade_functions = ShippedTable
          /\ branch[p] = "upgrade"
          /\ rc[p] = "True"
          /\ db_current[p] # None ) =>
            VEq(db_current[p], CodeDb(p))

\* C7: a run writes the version record at most once; each write is made by a
\* run to which do_upgrade returned True, after every function it called has
\* returned, and stores that run's code (service_version, db_version); and
\* the record changes by such a write only.
C7_WriteDiscipline ==
    [][ /\ \A p \in Procs :
             /\ writes'[p] <= 1
             /\ writes'[p] > writes[p] =>
                    /\ pc[p] = "do_upgrade_success"
                    /\ branch[p] = "upgrade"
                    /\ rc[p] = "True"
                    /\ exc[p] = "none"
                    /\ ~FnRaised(p)
                    /\ db_anchore'.table_exists
                    /\ db_anchore'.record["service_version"] =
                           code_versions[p]["service_version"]
                    /\ db_anchore'.record["db_version"] = code_versions[p]["db_version"]
        /\ ( \/ db_anchore'.table_exists # db_anchore.table_exists
             \/ DOMAIN db_anchore'.record # DOMAIN db_anchore.record
             \/ \E f \in DOMAIN db_anchore.record :
                    db_anchore'.record[f] # db_anchore.record[f] ) =>
               \E p \in Procs : writes'[p] > writes[p]
      ]_vars

\* A run has written the record after calling two functions that returned.
C7_Witness ==
    \E p \in Procs :
        /\ writes[p] = 1
        /\ Len(called[p]) = 2
        /\ ~FnRaised(p)
        /\ db_anchore.record["db_version"] = code_versions[p]["db_version"]

\* C8: the persisted db version never decreases in StrictVersion order, and
\* a version record never disappears, whatever the processes' code versions.
C8_MonotonicDbVersion ==
    [][ /\ "db_version" \in DOMAIN db_anchore.record =>
               /\ "db_version" \in DOMAIN db_anchore'.record
               /\ VLe(db_anchore.record["db_version"], db_anchore'.record["db_version"])
      ]_vars

\* Two processes with different code versions have each upgraded the database.
C8_Witness ==
    \E p, q \in Procs :
        /\ code_versions[p]["db_version"] = Ver(0, 0, 6)
        /\ code_versions[q]["db_version"] = Ver(0, 0, 7)
        /\ writes[p] = 1
        /\ writes[q] = 1
        /\ db_anchore.record["db_version"] = Ver(0, 0, 7)

\* C9: an invocation that is not between the lock's acquire and its release
\* (not started, blocked on the lock, or ended in any way) does not hold the
\* advisory lock.
C9_LockReleased ==
    \A p \in Procs : ~InContext(p) => lock[LockKey] # p

\* One invocation ended by a failed version-record write and another by a
\* raising migration function, and the lock is free.
C9_Witness ==
    \E p, q \in Procs :
        /\ pc[p] = "idle"
        /\ pc[q] = "idle"
        /\ result[p] = [kind |-> "raise", value |-> "Exception: version record write failed"]
        /\ result[q] = [kind |-> "raise", value |-> "Exception: upgrade function raised"]
        /\ lock[LockKey] = NoLock

\* C10: an invocation whose code declares a db version and that read a
\* version record without db version takes the 'not initialized' branch with
\* ecode 0, calls no migration function, writes no version record and returns
\* normally.
C10_Uninitialized ==
    \A p \in Procs :
        ( /\ HasCtx(p)
          /\ pc[p] # "inspect"
          /\ CodeDb(p) # None
          /\ RunningDb(p) = None ) =>
            /\ branch[p] = "uninitialized"
            /\ ecode[p] = {0}
            /\ pc[p] \in {"exit", "idle"}
            /\ exc[p] = "none"
            /\ called[p] = <<>>
            /\ writes[p] = 0
            /\ DOMAIN db_anchore.record = {}
            /\ pc[p] = "idle" => result[p].kind = "return"

\* A run on a database with an empty anchore table has returned.
C10_Witness ==
    \E p \in Procs :
        /\ pc[p] = "idle"
        /\ branch[p] = "uninitialized"
        /\ result[p].kind = "return"
        /\ ecode[p] = {0}
        /\ db_anchore.table_exists
        /\ DOMAIN db_anchore.record = {}

\* The invocation has ended (returned or raised) and not been followed by
\* another call of the same process.
Ended(p) == pc[p] = "idle" /\ runs[p] > 0

\* C11 as stated: an invocation that finds the anchore table missing ends
\* without surfacing a failure: it returns.
C11_MissingTableBenign ==
    \A p \in Procs :
        (Ended(p) /\ ~db_anchore.table_exists) => result[p].kind = "return"

\* C11, amended: an invocation that finds the anchore table missing raises
\* the distinct TableNotFoundError to its caller, having called no migration
\* function and written no version record, and with the lock released.
C11_MissingTableRaises ==
    \A p \in Procs :
        (runs[p] > 0 /\ ~db_anchore.table_exists) =>
            /\ ~HasCtx(p)
            /\ called[p] = <<>>
            /\ writes[p] = 0
            /\ pc[p] \in {"acquire", "get_versions", "exit", "idle"}
            /\ pc[p] = "exit" => exc[p] = "TableNotFoundError"
            /\ pc[p] = "idle" =>
                   /\ result[p] = [kind |-> "raise", value |-> "TableNotFoundError"]
                   /\ lock[LockKey] # p

\* Two invocations on a database without anchore table have both raised
\* TableNotFoundError.
C11_Witness ==
    /\ ~db_anchore.table_exists
    /\ \A p \in Procs : Ended(p) /\ result[p].value = "TableNotFoundError"

\* C12 as stated: the configuration error comes before the advisory lock is
\* acquired: a process whose code declares no db version never holds the lock.
C12_ConfigErrorBeforeLock ==
    \A p \in Procs :
        code_versions[p]["db_version"] = None => lock[LockKey] # p

\* C12, amended: when the code declares no db version and get_versions has
\* returned, run_upgrade raises the configuration error while it holds the
\* advisory lock, taken before and released on the way out, and before any
\* mutation: no migration function is called and no version record written.
C12_ConfigErrorInsideLock ==
    \A p \in Procs :
        code_versions[p]["db_version"] = None =>
            /\ called[p] = <<>>
            /\ writes[p] = 0
            /\ pc[p] \notin {"do_upgrade", "loop", "fn", "do_upgrade_success"}
            /\ (HasCtx(p) /\ pc[p] = "exit") =>
                   /\ exc[p] = "Exception: cannot code version"
                   /\ lock[LockKey] = p
            /\ (HasCtx(p) /\ pc[p] = "idle") =>
                   /\ result[p] = [kind |-> "raise", value |-> "Exception: cannot code version"]
                   /\ lock[LockKey] # p

\* The configuration error is propagating out of the with block of a process
\* that holds the lock, on a database with a version record.
C12_Witness ==
    \E p \in Procs :
        /\ pc[p] = "exit"
        /\ exc[p] = "Exception: cannot code version"
        /\ lock[LockKey] = p
        /\ "db_version" \in DOMAIN db_anchore.record

\* C13: a normal return of run_upgrade is True or False: True exactly when an
\* upgrade was executed and completed, False when none was necessary.
C13_ReturnsBoolean ==
    \A p \in Procs :
        (Ended(p) /\ result[p].kind = "return") =>
            /\ result[p].value \in {"True", "False"}
            /\ result[p].value = "True" <=> branch[p] = "upgrade"

\* The positions (step, function) at which table t lists the function name.
PosOf(t, name) ==
    CHOOSE ij \in UNION { {<<i, j>> : j \in 1..Len(t[i].functions_to_run)} : i \in 1..Len(t) } :
        t[ij[1]].functions_to_run[ij[2]] = name

\* C14: a run calls the functions of a step in their declared order from
\* the first one, each after the one before has returned, and the first
\* function of a later step only after the last function of the step before;
\* so no function is called twice in a run.
C14_ExecutionOrder ==
    \A p \in Procs :
        /\ Len(called[p]) > 0 => PosOf(upgrade_functions, called[p][1].fn)[2] = 1
        /\ \A k \in 1..(Len(called[p]) - 1) :
               LET a == PosOf(upgrade_functions, called[p][k].fn)
                   b == PosOf(upgrade_functions, called[p][k + 1].fn)
                   n == Len(upgrade_functions[a[1]].functions_to_run)
               IN  /\ ~called[p][k].raised
                   /\ \/ b[1] = a[1] /\ b[2] = a[2] + 1
                      \/ b[1] > a[1] /\ a[2] = n /\ b[2] = 1
        /\ \A k, l \in 1..Len(called[p]) : k # l => called[p][k].fn # called[p][l].fn

\* A run has called the five functions of the table with steps of two
\* functions, from 0.0.1 to 0.0.6.
C14_Witness ==
    \E p \in Procs :
        /\ upgrade_functions = WideTable
        /\ Len(called[p]) = 5
        /\ ~FnRaised(p)
        /\ rc[p] = "True"

\* The `to` version of the last step of table t.
LastTo(t) == t[Len(t)].version_tuple[2]

\* C15: when the code db version is newer than the `to` of the last step
\* and no function raises, the loop ends with db_current below the target,
\* do_upgrade still returns True, and the record run_upgrade writes carries
\* the target db version, which db_current never reached.
C15_BeyondTable ==
    \A p \in Procs :
        ( /\ HasCtx(p)
          /\ branch[p] = "upgrade"
          /\ VGt(CodeDb(p), LastTo(upgrade_functions))
          /\ VLe(RunningDb(p), CodeDb(p))
          /\ ~FnRaised(p)
          /\ pc[p] \in {"do_upgrade_success", "exit", "idle"} ) =>
            /\ rc[p] = "True"
            /\ VLt(db_current[p], CodeDb(p))
            /\ VLe(db_current[p], LastTo(upgrade_functions)) \/ db_current[p] = RunningDb(p)
            /\ (pc[p] = "exit" /\ writes[p] = 1) =>
                   /\ db_anchore.record["db_version"] = CodeDb(p)
                   /\ VLt(db_current[p], db_anchore.record["db_version"])

\* With the declared table, a run from 0.0.5 to 0.0.7 called the one function
\* up to 0.0.6 and recorded 0.0.7.
C15_Witness ==
    \E p \in Procs :
        /\ upgrade_functions = ShippedTable
        /\ pc[p] = "exit"
        /\ writes[p] = 1
        /\ CalledNames(p) = <<"db_upgrade_005_006">>
        /\ db_current[p] = Ver(0, 0, 6)
        /\ db_anchore.record["db_version"] = Ver(0, 0, 7)

\* C16: after process p's run has failed in a migration function, the next
\* invocation to take the lock (the first run of another process q) reads
\* the version record p's run had read, and selects its functions from that
\* version again: its calls repeat p's calls from the first one on, and a run
\* with the same code version that completes has called again every function
\* p's failed run had called.
C16_RestartFromTop ==
    \A p, q \in Procs :
        ( /\ p # q
          /\ pc[p] = "idle"
          /\ FnRaised(p)
          /\ runs[q] = 1
          /\ InContext(q)
          /\ HasCtx(q) ) =>
            /\ lock[LockKey] = q
            /\ RunningDb(q) = RunningDb(p)
            /\ ctx[q][2]["service_version"] = ctx[p][2]["service_version"]
            /\ \A k \in 1..Len(called[q]) :
                   k <= Len(called[p]) => called[q][k].fn = called[p][k].fn
            /\ (CodeDb(q) = CodeDb(p) /\ rc[q] = "True") =>
                   /\ Len(called[q]) >= Len(called[p])
                   /\ SubSeq(CalledNames(q), 1, Len(called[p])) = CalledNames(p)

\* p's run failed in its third function; q, with the same code version, has
\* then walked the table from the same version and called those three again.
C16_Witness ==
    \E p, q \in Procs :
        /\ p # q
        /\ pc[p] = "idle"
        /\ Len(called[p]) = 3
        /\ called[p][3].raised
        /\ runs[q] = 1
        /\ pc[q] = "exit"
        /\ writes[q] = 1
        /\ CodeDb(q) = CodeDb(p)
        /\ RunningDb(q) = RunningDb(p)
        /\ Len(called[q]) > 3
        /\ SubSeq(CalledNames(q), 1, 3) = CalledNames(p)

\* Every process has made one invocation, all with the same code versions,
\* and every invocation has returned: no migration function, database read
\* or record write failed.
AllReturnedOnce ==
    /\ \A p \in Procs : runs[p] = 1 /\ Ended(p) /\ result[p].kind = "return"
    /\ \A p, q \in Procs : code_versions[p] = code_versions[q]

\* C18: when concurrent invocations with the same code version have all
\* returned and one of them upgraded the database, it is the only one that
\* did: it wrote the version record once, after calling each of its selected
\* functions once, and every other invocation read the version it had written,
\* took the no-upgrade branch, called no function and wrote nothing.
C18_ExactlyOnce ==
    (AllReturnedOnce /\ \E p \in Procs : branch[p] = "upgrade") =>
        \E p \in Procs :
            /\ branch[p] = "upgrade"
            /\ writes[p] = 1
            /\ \A k, l \in 1..Len(called[p]) : k # l => called[p][k].fn # called[p][l].fn
            /\ \A q \in Procs \ {p} :
                   /\ branch[q] = "match"
                   /\ RunningDb(q) = CodeDb(p)
                   /\ called[q] = <<>>
                   /\ writes[q] = 0

\* Two invocations with code db version 0.0.6 have returned: one called two
\* functions and wrote the record, the other found nothing to do.
C18_Witness ==
    /\ AllReturnedOnce
    /\ \E p, q \in Procs :
           /\ p # q
           /\ CodeDb(p) = Ver(0, 0, 6)
           /\ Len(called[p]) = 2
           /\ writes[p] = 1
           /\ branch[q] = "match"

\* Version v is the `from` or the `to` of a step of table t.
IsBoundary(t, v) ==
    \E k \in 1..Len(t) : v = t[k].version_tuple[1] \/ v = t[k].version_tuple[2]

\* C19: with the declared table, a run between two boundary versions of the
\* table, running < code, in which no function raises ends its loop with
\* db_current equal to the code db version, and the record it writes carries
\* that version.
C19_ShippedTableExact ==
    \A p \in Procs :
        ( /\ upgrade_functions = ShippedTable
          /\ WalkedUp(p)
          /\ IsBoundary(ShippedTable, RunningDb(p))
          /\ IsBoundary(ShippedTable, CodeDb(p)) ) =>
            /\ db_current[p] = CodeDb(p)
            /\ (pc[p] = "exit" /\ writes[p] = 1) =>
                   db_anchore.record["db_version"] = db_current[p]

\* With the declared table, a run from 0.0.3 has stopped at its target 0.0.5,
\* one step before the end of the table, and recorded it.
C19_Witness ==
    \E p \in Procs :
        /\ upgrade_functions = ShippedTable
        /\ pc[p] = "exit"
        /\ writes[p] = 1
        /\ RunningDb(p) = Ver(0, 0, 3)
        /\ db_current[p] = Ver(0, 0, 5)
        /\ db_anchore.record["db_version"] = Ver(0, 0, 5)

\* C20: an invocation that read a record with the code's db version but
\* another service version takes the no-upgrade branch and writes nothing:
\* while it holds the lock the record still carries the service version it
\* read, not the code's.
C20_ServiceVersionOnly ==
    \A p \in Procs :
        ( /\ HasCtx(p)
          /\ pc[p] # "inspect"
          /\ CodeDb(p) # None
          /\ CodeDb(p) = RunningDb(p)
          /\ ctx[p][1]["service_version"] # ctx[p][2]["service_version"] ) =>
            /\ branch[p] = "match"
            /\ writes[p] = 0
            /\ InContext(p) =>
                   /\ db_anchore.record["service_version"] = ctx[p][2]["service_version"]
                   /\ db_anchore.record["service_version"] # code_versions[p]["service_version"]

\* Every process runs service 0.1.10 with db version 0.0.6, all their runs
\* are over, and the record still carries service version 0.1.9.
C20_Witness ==
    /\ \A p \in Procs :
           /\ runs[p] = MaxRuns
           /\ pc[p] = "idle"
           /\ branch[p] = "match"
           /\ code_versions[p]["service_version"] = "0.1.10"
    /\ db_anchore.record["service_version"] = "0.1.9"
    /\ db_anchore.record["db_version"] = Ver(0, 0, 6)

\* C17: with a fair lock provider and migration functions that return or
\* raise, every invocation that waits for the lock gets it, and every
\* invocation that holds it ends, returning or raising, with the lock
\* released: no invocation stays blocked.
C17_Termination ==
    \A p \in Procs :
        /\ (pc[p] = "acquire") ~> (lock[LockKey] = p)
        /\ (pc[p] # "idle") ~> (pc[p] = "idle" /\ result[p].kind # "none" /\ lock[LockKey] # p)

\* Every process has made all its invocations and the last of each has ended,
\* one of them with the version record written, and the lock is free.
C17_Witness ==
    /\ \A p \in Procs : runs[p] = MaxRuns /\ pc[p] = "idle" /\ result[p].kind # "none"
    /\ \E p \in Procs : writes[p] = 1
    /\ lock[LockKey] = NoLock

\* ------------------------------------------- claims on inner_wrapper
\* The places of inner_wrapper between set_identity(identity) and the
\* finally clause.
InTryBody(r) == frame[r].pc \in {"field", "value", "join", "authorize", "handler"}

\* A username that `not identity.username` lets pass.
HasUsername(identity) ==
    identity # None /\ identity[1] # None /\ identity[1] # <<>>

\* C21: the wrapped handler is about to be invoked only when authenticate
\* returned an identity with a username and authorize returned, without
\* raising, for the list of one bound string per declared permission; and a
\* request that failed before the handler has not invoked it.
C21_AuthorizationGate ==
    \A r \in Reqs :
        /\ frame[r].pc = "handler" =>
               /\ HasUsername(frame[r].identity)
               /\ frame[r].authz.called
               /\ frame[r].authz.raised = "none"
               /\ frame[r].authz.permission_list = frame[r].permissions_final
               /\ Len(frame[r].permissions_final) = Len(permission_s)
        /\ frame[r].invoked => frame[r].exc.at \in {"none", "handler"}
        /\ frame[r].exc.at \in {"context", "authenticate", "bind", "authorize"} =>
               ~frame[r].invoked

\* One request is about to invoke the handler decorated with two permissions
\* while another one has been refused by authorize.
C21_Witness ==
    \E r, q \in Reqs :
        /\ Len(permission_s) = 2
        /\ frame[r].pc = "handler"
        /\ Len(frame[r].authz.permission_list) = 2
        /\ frame[q].pc = "finally"
        /\ frame[q].exc.at = "authorize"
        /\ ~frame[q].invoked

\* The step in which the call of thread r returns to, or raises into, the
\* framework.
Returns(r) == frame[r].pc = "except" /\ frame'[r].pc = "idle"

\* C22 as stated: the wrapper always returns: 401 for a failed
\* authentication, 403 for a failed authorization, 500 for every other
\* exception, the handler's included, and else the handler's result.
C22_ErrorMapping ==
    [][\A r \in Reqs :
           Returns(r) =>
               frame'[r].response =
                   IF frame[r].exc.at = "none" THEN Return(frame[r].result)
                   ELSE IF frame[r].exc.at = "authenticate" THEN Return("401")
                   ELSE IF frame[r].exc.at = "authorize" THEN Return("403")
                   ELSE Return("500")]_authz_vars

\* C22, amended: the wrapper answers by the class of the exception.
\* Whatever authenticate or the username test raises gives 401; an Exception
\* raised by authorize gives 403; an exception raised on entering the
\* context, while binding or by the handler gives 403 when it is an
\* UnauthorizedError, 401 when it is an UnauthenticatedError and 500 when
\* it is another Exception; an exception that is no Exception, raised
\* anywhere but in the authentication block, propagates to the caller; and
\* without exception the handler's result is returned as it is.
C22_ErrorMappingByClass ==
    [][\A r \in Reqs :
           Returns(r) =>
               LET e == frame[r].exc
               IN  frame'[r].response =
                       IF e.at = "none" THEN Return(frame[r].result)
                       ELSE IF e.at = "authenticate" THEN Return("401")
                       ELSE IF ~IsException(e.raised) THEN Raise(e.raised)
                       ELSE IF e.at = "authorize" THEN Return("403")
                       ELSE IF e.raised = "UnauthorizedError" THEN Return("403")
                       ELSE IF e.raised = "UnauthenticatedError" THEN Return("401")
                       ELSE Return("500")]_authz_vars

\* One call has answered 403 and the other has let a SystemExit through.
C22_Witness ==
    \E r, q \in Reqs :
        /\ frame[r].pc = "idle"
        /\ frame[r].response = Return("403")
        /\ frame[q].pc = "idle"
        /\ frame[q].response = Raise("SystemExit")

\* C23: the request context carries an identity only between a successful
\* authentication and the finally clause, and then the identity returned by
\* authenticate, which has a username; on the way out of the wrapper and
\* after it has returned, whichever way the call ended, it carries None.
C23_IdentityTeardown ==
    \A r \in Reqs :
        /\ request_identity[r] # None =>
               /\ InTryBody(r) \/ frame[r].pc = "finally"
               /\ HasUsername(request_identity[r])
               /\ frame[r].exc.at \notin {"context", "authenticate"}
        /\ InTryBody(r) => request_identity[r] = frame[r].identity
        /\ frame[r].pc \in {"idle", "context", "authenticate", "except"} =>
               request_identity[r] = None

\* A call whose handler raised is past its finally clause, the request
\* context reset, while the other call is being served under its identity.
C23_Witness ==
    \E r, q \in Reqs :
        /\ frame[r].pc = "except"
        /\ frame[r].exc.at = "handler"
        /\ request_identity[r] = None
        /\ frame[q].pc = "handler"
        /\ request_identity[q] # None

\* The value the claims expect field x of a permission to contribute for the
\* call with frame f: its own string ('*' for a false one), the requesting
\* account, or the named keyword argument of this call and, when the call
\* does not supply it, the declared default_value.
DeclaredValue(f, x) ==
    IF ~Truthy(x) THEN Star
    ELSE IF x.cls = "str" THEN x.init
    ELSE IF x.cls = "RequestingAccountValue" THEN namespace(f.identity)
    ELSE DictGet(f.kwargs, x.param_name, x.init)

DeclaredParts(f, perm) ==
    <<DeclaredValue(f, perm.domain), DeclaredValue(f, perm.action), DeclaredValue(f, perm.target)>>

\* The call with frame f supplies every parameter permission_s names.
SuppliesParameters(f) ==
    \A o \in LazyObjects(permission_s) :
        permission_s[o[1]][o[2]].cls = "ParameterBoundValue" =>
            permission_s[o[1]][o[2]].param_name \in DOMAIN f.kwargs

\* C24: in any interleaving of concurrent calls, the permission strings a
\* call that supplies the bound parameters passes to authorize are built
\* from its own keyword arguments and its own identity.
C24_OwnBinding ==
    \A r \in Reqs :
        (frame[r].pc \in {"authorize", "handler"} /\ SuppliesParameters(frame[r])) =>
            \A i \in 1..Len(frame[r].permissions_final) :
                frame[r].permissions_final[i] = Join(DeclaredParts(frame[r], permission_s[i]))

\* C25: for requests served one after the other, the values a call has
\* collected for a permission are those of its own keyword arguments, with
\* the declared default_value for a parameter it does not supply, whatever
\* earlier calls bound.
C25_NoLeakage ==
    \A r \in Reqs :
        frame[r].pc = "join" =>
            frame[r].parts = DeclaredParts(frame[r], permission_s[frame[r].perm_i])

====
